---- MODULE Spec2Model ----
(***************************************************************************)
(* Model of examples/workflow-example.py: the command runner               *)
(* run_cli_command, the example drivers example1..example5 and main().     *)
(*                                                                         *)
(* Text is a sequence of characters.  A character is a one-character       *)
(* string; a non-ASCII character is written "uXXXX" after its code point,  *)
(* so that distinct characters stay distinct.                              *)
(***************************************************************************)
EXTENDS Integers, Sequences, FiniteSets, TLC

\* ------------------------------------------------------------------ bounds
\* longest raw output (in bytes) a child writes to one of its pipes
MaxOutLen == 1
\* child exit statuses range over 0..MaxExit
MaxExit == 1
\* a child may be killed by one of the signals 1..MaxSig
MaxSig == 1
\* longest caller-supplied text (a command line, a task id)
MaxInputLen == 2
\* total length of the three values given to a create driver
MaxValuesLen == 3

\* ------------------------------------------------- literals of the source
\* line 43, topic:  AI ???????   (? = one CJK character)
topic1 ==
    <<"A", "I", " ", "u6280", "u672F", "u7684", "u53D1", "u5C55", "u8D8B",
      "u52BF">>

\* line 44, requirements:  ????? AI ???????????????????   (? = one CJK character)
requirements1 ==
    <<"u5199", "u4E00", "u7BC7", "u5173", "u4E8E", " ", "A", "I", " ",
      "u6280", "u672F", "u53D1", "u5C55", "u8D8B", "u52BF", "u7684",
      "u6587", "u7AE0", "uFF0C", "u91CD", "u70B9", "u8BA8", "u8BBA",
      "u5927", "u8BED", "u8A00", "u6A21", "u578B">>

\* line 45, keywords:  AI,????,????   (? = one CJK character)
keywords1 ==
    <<"A", "I", ",", "u4EBA", "u5DE5", "u667A", "u80FD", ",", "u6280",
      "u672F", "u53D1", "u5C55">>

\* line 70, topic:  Web ???????   (? = one CJK character)
topic2 ==
    <<"W", "e", "b", " ", "u5F00", "u53D1", "u7684", "u6700", "u4F73",
      "u5B9E", "u8DF5">>

\* line 71, requirements:  ???? Web ???????????????????   (? = one CJK character)
requirements2 ==
    <<"u4ECB", "u7ECD", "u73B0", "u4EE3", " ", "W", "e", "b", " ", "u5F00",
      "u53D1", "u7684", "u6700", "u4F73", "u5B9E", "u8DF5", "uFF0C",
      "u5305", "u62EC", "u6027", "u80FD", "u4F18", "u5316", "u548C",
      "u5B89", "u5168", "u8003", "u8651">>

\* line 72, keywords:  Web,??,????   (? = one CJK character)
keywords2 ==
    <<"W", "e", "b", ",", "u524D", "u7AEF", ",", "u6027", "u80FD", "u4F18",
      "u5316">>

\* lines 47 and 74, the f-string up to {topic} (it ends with the opening quote)
CreatePrefix ==
    <<"n", "p", "m", " ", "r", "u", "n", " ", "c", "l", "i", ":", "c", "r",
      "e", "a", "t", "e", " ", "-", "-", " ", "-", "-", "t", "o", "p", "i",
      "c", " ", "\"">>

\* lines 47 and 74, between {topic} and {requirements} (quote to quote)
CreateReq ==
    <<"\"", " ", "-", "-", "r", "e", "q", "u", "i", "r", "e", "m", "e",
      "n", "t", "s", " ", "\"">>

\* lines 47 and 74, between {requirements} and {keywords} (quote to quote)
CreateKw ==
    <<"\"", " ", "-", "-", "k", "e", "y", "w", "o", "r", "d", "s", " ",
      "\"">>

\* line 47, after {keywords}: closing quote, --min-words 500 --max-words 1000 --mode sync
CreateSyncTail ==
    <<"\"", " ", "-", "-", "m", "i", "n", "-", "w", "o", "r", "d", "s",
      " ", "5", "0", "0", " ", "-", "-", "m", "a", "x", "-", "w", "o", "r",
      "d", "s", " ", "1", "0", "0", "0", " ", "-", "-", "m", "o", "d", "e",
      " ", "s", "y", "n", "c">>

\* line 74, after {keywords}: closing quote, --min-words 800 --max-words 1200 --mode async
CreateAsyncTail ==
    <<"\"", " ", "-", "-", "m", "i", "n", "-", "w", "o", "r", "d", "s",
      " ", "8", "0", "0", " ", "-", "-", "m", "a", "x", "-", "w", "o", "r",
      "d", "s", " ", "1", "2", "0", "0", " ", "-", "-", "m", "o", "d", "e",
      " ", "a", "s", "y", "n", "c">>

\* line 97, the f-string up to {task_id}:  npm run cli:status -- --id 
StatusPrefix ==
    <<"n", "p", "m", " ", "r", "u", "n", " ", "c", "l", "i", ":", "s", "t",
      "a", "t", "u", "s", " ", "-", "-", " ", "-", "-", "i", "d", " ">>

\* line 120:  npm run cli:list
ListCommand ==
    <<"n", "p", "m", " ", "r", "u", "n", " ", "c", "l", "i", ":", "l", "i",
      "s", "t">>

\* ------------------------------------------ texts of exceptions (str(e))
\* ValueError of shlex.split, a quote left open:  No closing quotation
MsgNoClosingQuotation ==
    <<"N", "o", " ", "c", "l", "o", "s", "i", "n", "g", " ", "q", "u", "o",
      "t", "a", "t", "i", "o", "n">>

\* ValueError of shlex.split, a trailing backslash:  No escaped character
MsgNoEscapedCharacter ==
    <<"N", "o", " ", "e", "s", "c", "a", "p", "e", "d", " ", "c", "h", "a",
      "r", "a", "c", "t", "e", "r">>

\* IndexError of subprocess.run on an empty argument list:  list index out of range
MsgListIndex ==
    <<"l", "i", "s", "t", " ", "i", "n", "d", "e", "x", " ", "o", "u", "t",
      " ", "o", "f", " ", "r", "a", "n", "g", "e">>

\* OSError: the words str(e) opens with:  [Errno
MsgErrno ==
    <<"[", "E", "r", "r", "n", "o", " ">>

\* os.strerror(errno) of the error numbers line 20 may fail with
strerror(errno) ==
    CASE errno = 1 ->   \* EPERM
          <<"O", "p", "e", "r", "a", "t", "i", "o", "n", " ", "n", "o", "t",
            " ", "p", "e", "r", "m", "i", "t", "t", "e", "d">>
      [] errno = 2 ->   \* ENOENT
          <<"N", "o", " ", "s", "u", "c", "h", " ", "f", "i", "l", "e", " ",
            "o", "r", " ", "d", "i", "r", "e", "c", "t", "o", "r", "y">>
      [] errno = 5 ->   \* EIO
          <<"I", "n", "p", "u", "t", "/", "o", "u", "t", "p", "u", "t", " ",
            "e", "r", "r", "o", "r">>
      [] errno = 7 ->   \* E2BIG
          <<"A", "r", "g", "u", "m", "e", "n", "t", " ", "l", "i", "s", "t",
            " ", "t", "o", "o", " ", "l", "o", "n", "g">>
      [] errno = 8 ->   \* ENOEXEC
          <<"E", "x", "e", "c", " ", "f", "o", "r", "m", "a", "t", " ", "e",
            "r", "r", "o", "r">>
      [] errno = 11 ->   \* EAGAIN
          <<"R", "e", "s", "o", "u", "r", "c", "e", " ", "t", "e", "m", "p",
            "o", "r", "a", "r", "i", "l", "y", " ", "u", "n", "a", "v", "a",
            "i", "l", "a", "b", "l", "e">>
      [] errno = 12 ->   \* ENOMEM
          <<"C", "a", "n", "n", "o", "t", " ", "a", "l", "l", "o", "c", "a",
            "t", "e", " ", "m", "e", "m", "o", "r", "y">>
      [] errno = 13 ->   \* EACCES
          <<"P", "e", "r", "m", "i", "s", "s", "i", "o", "n", " ", "d", "e",
            "n", "i", "e", "d">>
      [] errno = 20 ->   \* ENOTDIR
          <<"N", "o", "t", " ", "a", " ", "d", "i", "r", "e", "c", "t", "o",
            "r", "y">>
      [] errno = 21 ->   \* EISDIR
          <<"I", "s", " ", "a", " ", "d", "i", "r", "e", "c", "t", "o", "r",
            "y">>
      [] errno = 22 ->   \* EINVAL
          <<"I", "n", "v", "a", "l", "i", "d", " ", "a", "r", "g", "u", "m",
            "e", "n", "t">>
      [] errno = 23 ->   \* ENFILE
          <<"T", "o", "o", " ", "m", "a", "n", "y", " ", "o", "p", "e", "n",
            " ", "f", "i", "l", "e", "s", " ", "i", "n", " ", "s", "y", "s",
            "t", "e", "m">>
      [] errno = 24 ->   \* EMFILE
          <<"T", "o", "o", " ", "m", "a", "n", "y", " ", "o", "p", "e", "n",
            " ", "f", "i", "l", "e", "s">>
      [] errno = 26 ->   \* ETXTBSY
          <<"T", "e", "x", "t", " ", "f", "i", "l", "e", " ", "b", "u", "s",
            "y">>
      [] errno = 36 ->   \* ENAMETOOLONG
          <<"F", "i", "l", "e", " ", "n", "a", "m", "e", " ", "t", "o", "o",
            " ", "l", "o", "n", "g">>
      [] errno = 40 ->   \* ELOOP
          <<"T", "o", "o", " ", "m", "a", "n", "y", " ", "l", "e", "v", "e",
            "l", "s", " ", "o", "f", " ", "s", "y", "m", "b", "o", "l", "i",
            "c", " ", "l", "i", "n", "k", "s">>
      [] errno = 80 ->   \* ELIBBAD
          <<"A", "c", "c", "e", "s", "s", "i", "n", "g", " ", "a", " ", "c",
            "o", "r", "r", "u", "p", "t", "e", "d", " ", "s", "h", "a", "r",
            "e", "d", " ", "l", "i", "b", "r", "a", "r", "y">>

\* ValueError of subprocess.run, an argument holds a NUL:  embedded null byte
MsgNullByte ==
    <<"e", "m", "b", "e", "d", "d", "e", "d", " ", "n", "u", "l", "l", " ",
      "b", "y", "t", "e">>

\* UnicodeDecodeError of text=True: the codec's name as the message quotes it
QuotedUtf8 ==
    <<"'", "u", "t", "f", "-", "8", "'">>

QuotedAscii ==
    <<"'", "a", "s", "c", "i", "i", "'">>

\* ... the words between the codec's name and the position
MsgCantDecode ==
    <<" ", "c", "o", "d", "e", "c", " ", "c", "a", "n", "'", "t", " ", "d",
      "e", "c", "o", "d", "e", " ", "b", "y", "t", "e", " ", "0", "x", "f",
      "f", " ", "i", "n", " ", "p", "o", "s", "i", "t", "i", "o", "n", " ">>

\* ... the reason the UTF-8 codec gives for the byte 0xff
MsgInvalidStartByte ==
    <<":", " ", "i", "n", "v", "a", "l", "i", "d", " ", "s", "t", "a", "r",
      "t", " ", "b", "y", "t", "e">>

\* ... the reason the ASCII codec gives for a byte above 127
MsgOrdinalNotInRange ==
    <<":", " ", "o", "r", "d", "i", "n", "a", "l", " ", "n", "o", "t", " ",
      "i", "n", " ", "r", "a", "n", "g", "e", "(", "1", "2", "8", ")">>

\* UnicodeEncodeError of os.fsencode, one character that does not encode
MsgCantEncodeCharacter ==
    <<" ", "c", "o", "d", "e", "c", " ", "c", "a", "n", "'", "t", " ", "e",
      "n", "c", "o", "d", "e", " ", "c", "h", "a", "r", "a", "c", "t", "e",
      "r", " ">>

\* ... and a run of them
MsgCantEncodeCharacters ==
    <<" ", "c", "o", "d", "e", "c", " ", "c", "a", "n", "'", "t", " ", "e",
      "n", "c", "o", "d", "e", " ", "c", "h", "a", "r", "a", "c", "t", "e",
      "r", "s", " ">>

MsgInPosition ==
    <<"i", "n", " ", "p", "o", "s", "i", "t", "i", "o", "n", " ">>

\* UnicodeDecodeError of text=True, before and after the position, under
\* the encoding enc of the locale
MsgDecodeHead(enc) ==
    (IF enc = "ascii" THEN QuotedAscii ELSE QuotedUtf8) \o MsgCantDecode

MsgDecodeTail(enc) ==
    IF enc = "ascii" THEN MsgOrdinalNotInRange ELSE MsgInvalidStartByte

\* ------------------------------------------- shlex.split(command), line 19
\* shlex.split builds shlex(s, posix=True) with whitespace_split = True and
\* no commenters; these are the character classes of that lexer.
whitespace == {" ", "\t", "\r", "\n"}
quotes == {"'", "\""}
escape == {"\\"}
escapedquotes == {"\""}

TokenOk(argv) == [ok |-> TRUE, argv |-> argv, err |-> <<>>]
TokenError(msg) == [ok |-> FALSE, argv |-> <<>>, err |-> msg]

\* The token the lexer emits when a word ends: an empty token is kept only
\* if a quote was seen ('' and "" are arguments).
Emit(out, token, quoted) ==
    IF token # <<>> \/ quoted THEN Append(out, token) ELSE out

\* The lexer between two characters: state is " " (between words), "a" (in
\* a word), a quote character (inside that quote) or the escape character
\* (after a backslash); escapedstate is the state a backslash returns to;
\* token and quoted describe the word being read, out the words read.
Lexer(state, escapedstate, token, quoted, out) ==
    [state |-> state, escapedstate |-> escapedstate, token |-> token,
     quoted |-> quoted, out |-> out]

LexerStart == Lexer(" ", " ", <<>>, FALSE, <<>>)

\* shlex.read_token: one turn of its loop, on the character nextchar
read_token(lx, nextchar) ==
    IF lx.state = " "
    THEN IF nextchar \in whitespace
         THEN Lexer(" ", " ", <<>>, FALSE, lx.out)
         ELSE IF nextchar \in escape
         THEN Lexer(nextchar, "a", lx.token, lx.quoted, lx.out)
         ELSE IF nextchar \in quotes
         THEN Lexer(nextchar, lx.escapedstate, lx.token, lx.quoted, lx.out)
         ELSE Lexer("a", lx.escapedstate, <<nextchar>>, lx.quoted, lx.out)
    ELSE IF lx.state \in quotes
    THEN IF nextchar = lx.state
         THEN Lexer("a", lx.escapedstate, lx.token, TRUE, lx.out)
         ELSE IF nextchar \in escape /\ lx.state \in escapedquotes
         THEN Lexer(nextchar, lx.state, lx.token, TRUE, lx.out)
         ELSE Lexer(lx.state, lx.escapedstate, Append(lx.token, nextchar),
                    TRUE, lx.out)
    ELSE IF lx.state \in escape
    THEN LET kept == IF /\ lx.escapedstate \in quotes
                        /\ nextchar # lx.state
                        /\ nextchar # lx.escapedstate
                     THEN Append(lx.token, lx.state)
                     ELSE lx.token
         IN Lexer(lx.escapedstate, lx.escapedstate, Append(kept, nextchar),
                  lx.quoted, lx.out)
    ELSE IF nextchar \in whitespace
         THEN Lexer(" ", " ", <<>>, FALSE, Emit(lx.out, lx.token, lx.quoted))
         ELSE IF nextchar \in quotes
         THEN Lexer(nextchar, lx.escapedstate, lx.token, lx.quoted, lx.out)
         ELSE IF nextchar \in escape
         THEN Lexer(nextchar, "a", lx.token, lx.quoted, lx.out)
         ELSE Lexer("a", lx.escapedstate, Append(lx.token, nextchar),
                    lx.quoted, lx.out)

\* shlex.read_token at the end of the text
read_token_eof(lx) ==
    IF lx.state \in quotes THEN TokenError(MsgNoClosingQuotation)
    ELSE IF lx.state \in escape THEN TokenError(MsgNoEscapedCharacter)
    ELSE TokenOk(Emit(lx.out, lx.token, lx.quoted))

\* the lexer after the characters s[lo..hi], read in order; the range is
\* halved, and lx is looked at first (its state is never empty), to keep the
\* evaluation shallow on a long command line
RECURSIVE read_chars(_, _, _, _)
read_chars(lx, s, lo, hi) ==
    IF lo > hi \/ lx.state = "" THEN lx
    ELSE IF lo = hi THEN read_token(lx, s[lo])
    ELSE LET mid == (lo + hi) \div 2 IN
         read_chars(read_chars(lx, s, lo, mid), s, mid + 1, hi)

\* str.split(), the tokenizer a runner without quote handling would use:
\* it knows no quote and no escape character
plain_token(lx, nextchar) ==
    IF nextchar \in whitespace
    THEN Lexer(" ", " ", <<>>, FALSE, Emit(lx.out, lx.token, FALSE))
    ELSE Lexer("a", " ", Append(lx.token, nextchar), FALSE, lx.out)

RECURSIVE plain_chars(_, _, _, _)
plain_chars(lx, s, lo, hi) ==
    IF lo > hi \/ lx.state = "" THEN lx
    ELSE IF lo = hi THEN plain_token(lx, s[lo])
    ELSE LET mid == (lo + hi) \div 2 IN
         plain_chars(plain_chars(lx, s, lo, mid), s, mid + 1, hi)

shlex_split_unquoted(command) ==
    read_token_eof(plain_chars(LexerStart, command, 1, Len(command)))

\* shlex.split(command): the words of command, or the ValueError
shlex_split(command) ==
    read_token_eof(read_chars(LexerStart, command, 1, Len(command)))

\* --------------------------------------- the command lines the drivers build
\* lines 47 and 74: the f-string of the create drivers, tail being the
\* literal text that follows {keywords}
create_command(topic, requirements, keywords, tail) ==
    CreatePrefix \o topic \o CreateReq \o requirements \o CreateKw
        \o keywords \o tail

\* line 97: the f-string of the status driver
status_command(task_id) == StatusPrefix \o task_id

\* ----------------------------------------------------- Python conversions
Range(s) == {s[i] : i \in 1..Len(s)}

RECURSIVE Concat(_)
Concat(ss) == IF ss = <<>> THEN <<>> ELSE Head(ss) \o Concat(Tail(ss))

DecimalDigits == <<"0", "1", "2", "3", "4", "5", "6", "7", "8", "9">>

\* str(n) of a natural number
RECURSIVE NatText(_)
NatText(n) ==
    IF n < 10 THEN <<DecimalDigits[n + 1]>>
    ELSE NatText(n \div 10) \o <<DecimalDigits[(n % 10) + 1]>>

\* repr(s) of a str: single quotes, unless s holds a single quote and no
\* double quote; the backslash, the chosen quote and control characters
\* are escaped.
repr(s) ==
    LET q == IF "'" \in Range(s) /\ "\"" \notin Range(s) THEN "\"" ELSE "'"
        esc(c) == IF c = "\\" THEN <<"\\", "\\">>
                  ELSE IF c = q THEN <<"\\", c>>
                  ELSE IF c = "\n" THEN <<"\\", "n">>
                  ELSE IF c = "\r" THEN <<"\\", "r">>
                  ELSE IF c = "\t" THEN <<"\\", "t">>
                  ELSE <<c>>
    IN <<q>> \o Concat([i \in 1..Len(s) |-> esc(s[i])]) \o <<q>>

\* The bytes a child writes: the letter a, and 0xff, which starts no UTF-8
\* sequence and is no ASCII character.
Bytes == {97, 255}

\* the ASCII characters of the bytes the model writes
Chr(b) ==
    CASE b = 10 -> "\n"
      [] b = 13 -> "\r"
      [] b = 47 -> "/"
      [] b = 97 -> "a"

\* the encodings the locale may have
LocaleEncodings == {"utf-8", "ascii"}

\* bytes.decode(enc) under the default strict error handler: the text, or
\* the (0-based) position of the first byte that cannot be decoded.  Of the
\* bytes above, both encodings decode 97 and neither decodes 255.
bytes_decode(enc, raw) ==
    LET bad == {i \in 1..Len(raw) : raw[i] >= 128} IN
    IF bad = {}
    THEN [ok |-> TRUE, text |-> [i \in 1..Len(raw) |-> Chr(raw[i])], pos |-> 0]
    ELSE [ok |-> FALSE, text |-> <<>>,
          pos |-> (CHOOSE i \in bad : \A j \in bad : i <= j) - 1]

\* text=True reads the pipes with universal newlines:
\* data.replace("\r\n", "\n").replace("\r", "\n")
RECURSIVE translate_newlines(_)
translate_newlines(text) ==
    IF text = <<>> THEN <<>>
    ELSE IF Head(text) = "\r"
         THEN IF Len(text) >= 2 /\ text[2] = "\n"
              THEN <<"\n">> \o translate_newlines(Tail(Tail(text)))
              ELSE <<"\n">> \o translate_newlines(Tail(text))
         ELSE <<Head(text)>> \o translate_newlines(Tail(text))

\* --------------------------------------------------------------- encodings
\* the characters of the source's texts that are not ASCII: the CJK
\* characters of the values of lines 43-45 and 70-72, which GBK encodes ...
CJK ==
    {"u4E00", "u4E8E", "u4EBA", "u4ECB", "u4EE3", "u4F18", "u4F73",
     "u5168", "u5173", "u5199", "u524D", "u52BF", "u5305", "u5316",
     "u53D1", "u548C", "u578B", "u5927", "u5B89", "u5B9E", "u5C55",
     "u5DE5", "u5F00", "u6027", "u6280", "u62EC", "u6587", "u667A",
     "u6700", "u672F", "u6A21", "u70B9", "u73B0", "u7684", "u7AE0",
     "u7AEF", "u7BC7", "u7ECD", "u8003", "u80FD", "u8651", "u8A00",
     "u8BA8", "u8BBA", "u8BED", "u8D8B", "u8DF5", "u91CD", "uFF0C"}

\* ... and the marks U+2705, U+274C and U+1F4A1, which it does not
Marks == {"u2705", "u274C", "u1F4A1"}

\* the lone surrogates U+DC80..U+DCFF, which the surrogateescape error
\* handler puts in the place of a byte that does not decode
surrogateescape(b) ==
    CASE b = 128 -> "uDC80"
      [] b = 184 -> "uDCB8"
      [] b = 228 -> "uDCE4"
      [] b = 255 -> "uDCFF"

Surrogates == {"uDC80", "uDCB8", "uDCE4", "uDCFF"}

\* str.encode(enc) of one character succeeds, under the strict error
\* handler: no encoding encodes a lone surrogate
CharEncodes(enc, c) ==
    /\ c \notin Surrogates
    /\ \/ enc = "utf-8"
       \/ enc = "gbk" /\ c \notin Marks
       \/ enc = "ascii" /\ c \notin CJK \cup Marks

\* the code point of a character that is not ASCII
ord(c) ==
    CASE c = "u4E00" -> 19968
      [] c = "u4E8E" -> 20110
      [] c = "u4EBA" -> 20154
      [] c = "u4ECB" -> 20171
      [] c = "u4EE3" -> 20195
      [] c = "u4F18" -> 20248
      [] c = "u4F73" -> 20339
      [] c = "u5168" -> 20840
      [] c = "u5173" -> 20851
      [] c = "u5199" -> 20889
      [] c = "u524D" -> 21069
      [] c = "u52BF" -> 21183
      [] c = "u5305" -> 21253
      [] c = "u5316" -> 21270
      [] c = "u53D1" -> 21457
      [] c = "u548C" -> 21644
      [] c = "u578B" -> 22411
      [] c = "u5927" -> 22823
      [] c = "u5B89" -> 23433
      [] c = "u5B9E" -> 23454
      [] c = "u5C55" -> 23637
      [] c = "u5DE5" -> 24037
      [] c = "u5F00" -> 24320
      [] c = "u6027" -> 24615
      [] c = "u6280" -> 25216
      [] c = "u62EC" -> 25324
      [] c = "u6587" -> 25991
      [] c = "u667A" -> 26234
      [] c = "u6700" -> 26368
      [] c = "u672F" -> 26415
      [] c = "u6A21" -> 27169
      [] c = "u70B9" -> 28857
      [] c = "u73B0" -> 29616
      [] c = "u7684" -> 30340
      [] c = "u7AE0" -> 31456
      [] c = "u7AEF" -> 31471
      [] c = "u7BC7" -> 31687
      [] c = "u7ECD" -> 32461
      [] c = "u8003" -> 32771
      [] c = "u80FD" -> 33021
      [] c = "u8651" -> 34385
      [] c = "u8A00" -> 35328
      [] c = "u8BA8" -> 35752
      [] c = "u8BBA" -> 35770
      [] c = "u8BED" -> 35821
      [] c = "u8D8B" -> 36235
      [] c = "u8DF5" -> 36341
      [] c = "u91CD" -> 37325
      [] c = "uFF0C" -> 65292
      [] c = "u2705" -> 9989
      [] c = "u274C" -> 10060
      [] c = "u1F4A1" -> 128161

HexDigits ==
    <<"0", "1", "2", "3", "4", "5", "6", "7", "8", "9", "a", "b", "c", "d",
      "e", "f">>

\* n in hexadecimal, width digits
RECURSIVE Hex(_, _)
Hex(n, width) ==
    IF width = 0 THEN <<>>
    ELSE Hex(n \div 16, width - 1) \o <<HexDigits[(n % 16) + 1]>>

\* the escape UnicodeEncodeError writes for a character
CharEscape(c) ==
    IF ord(c) > 65535 THEN <<"\\", "U">> \o Hex(ord(c), 8)
    ELSE <<"\\", "u">> \o Hex(ord(c), 4)

\* str.encode(enc) of a text succeeds
TextEncodes(enc, s) == \A i \in 1..Len(s) : CharEncodes(enc, s[i])

\* str(e) of the UnicodeEncodeError the ASCII codec raises for the text s:
\* it names the first run of characters that do not encode, by the 0-based
\* positions of its ends, or a single character by its escape
EncodeErrorText(s) ==
    LET bad(i) == ~CharEncodes("ascii", s[i])
        start == CHOOSE i \in 1..Len(s) :
                     bad(i) /\ \A j \in 1..(i - 1) : ~bad(j)
        end == CHOOSE i \in start..Len(s) :
                   /\ \A j \in start..i : bad(j)
                   /\ i = Len(s) \/ ~bad(i + 1)
    IN QuotedAscii \o
       (IF end = start
        THEN MsgCantEncodeCharacter \o <<"'">> \o CharEscape(s[start])
                 \o <<"'", " ">> \o MsgInPosition \o NatText(start - 1)
        ELSE MsgCantEncodeCharacters \o MsgInPosition \o NatText(start - 1)
                 \o <<"-">> \o NatText(end - 1))
       \o MsgOrdinalNotInRange

\* chr(n) of a code point of the texts above
chr(n) == CHOOSE c \in CJK \cup Marks : ord(c) = n

\* os.fsdecode(raw), which os.getcwd() applies to the path of the working
\* directory: bytes.decode(enc, "surrogateescape").  An ASCII byte is its
\* character; under UTF-8 a three-byte sequence is the character U+0800 to
\* U+FFFF it encodes (the paths below hold no sequence of two or of four
\* bytes); any other byte becomes a lone surrogate.
RECURSIVE fsdecode(_, _)
fsdecode(enc, raw) ==
    IF raw = <<>> THEN <<>>
    ELSE IF raw[1] < 128 THEN <<Chr(raw[1])>> \o fsdecode(enc, Tail(raw))
    ELSE LET cp == (raw[1] - 224) * 4096 + (raw[2] - 128) * 64 + (raw[3] - 128)
         IN IF /\ enc = "utf-8"
               /\ Len(raw) >= 3
               /\ raw[1] \in 224..239
               /\ raw[2] \in 128..191
               /\ raw[3] \in 128..191
               /\ cp >= 2048
               /\ cp \notin 55296..57343
            THEN <<chr(cp)>> \o fsdecode(enc, SubSeq(raw, 4, Len(raw)))
            ELSE <<surrogateescape(raw[1])>> \o fsdecode(enc, Tail(raw))

\* ---------------------------------------------------- values of the program
\* the triple run_cli_command returns
Triple(returncode, stdout, stderr) ==
    [returncode |-> returncode, stdout |-> stdout, stderr |-> stderr]

NoResult == Triple(0, <<>>, <<>>)

\* what a driver returns: a text, or None (it falls off its end)
PyNone == [isNone |-> TRUE, val |-> <<>>]
Some(text) == [isNone |-> FALSE, val |-> text]

\* Python truth value of a driver's return value, line 146
Truthy(v) == ~v.isNone /\ v.val # <<>>

\* an exception raised inside the try block of run_cli_command
Exc(type, msg, returncode, stdout, stderr) ==
    [type |-> type, msg |-> msg, returncode |-> returncode,
     stdout |-> stdout, stderr |-> stderr]

\* __bases__ of the exception classes of Python (builtins and subprocess)
Bases(class) ==
    CASE class = "BaseException" -> {}
      [] class = "BaseExceptionGroup" -> {"BaseException"}
      [] class = "Exception" -> {"BaseException"}
      [] class = "GeneratorExit" -> {"BaseException"}
      [] class = "KeyboardInterrupt" -> {"BaseException"}
      [] class = "SystemExit" -> {"BaseException"}
      [] class = "ArithmeticError" -> {"Exception"}
      [] class = "AssertionError" -> {"Exception"}
      [] class = "AttributeError" -> {"Exception"}
      [] class = "BufferError" -> {"Exception"}
      [] class = "EOFError" -> {"Exception"}
      [] class = "ImportError" -> {"Exception"}
      [] class = "LookupError" -> {"Exception"}
      [] class = "MemoryError" -> {"Exception"}
      [] class = "NameError" -> {"Exception"}
      [] class = "OSError" -> {"Exception"}
      [] class = "ReferenceError" -> {"Exception"}
      [] class = "RuntimeError" -> {"Exception"}
      [] class = "StopAsyncIteration" -> {"Exception"}
      [] class = "StopIteration" -> {"Exception"}
      [] class = "SubprocessError" -> {"Exception"}
      [] class = "SyntaxError" -> {"Exception"}
      [] class = "SystemError" -> {"Exception"}
      [] class = "TypeError" -> {"Exception"}
      [] class = "ValueError" -> {"Exception"}
      [] class = "Warning" -> {"Exception"}
      [] class = "FloatingPointError" -> {"ArithmeticError"}
      [] class = "OverflowError" -> {"ArithmeticError"}
      [] class = "ZeroDivisionError" -> {"ArithmeticError"}
      [] class = "ExceptionGroup" -> {"BaseExceptionGroup", "Exception"}
      [] class = "ModuleNotFoundError" -> {"ImportError"}
      [] class = "IndexError" -> {"LookupError"}
      [] class = "KeyError" -> {"LookupError"}
      [] class = "UnboundLocalError" -> {"NameError"}
      [] class = "BlockingIOError" -> {"OSError"}
      [] class = "ChildProcessError" -> {"OSError"}
      [] class = "ConnectionError" -> {"OSError"}
      [] class = "FileExistsError" -> {"OSError"}
      [] class = "FileNotFoundError" -> {"OSError"}
      [] class = "InterruptedError" -> {"OSError"}
      [] class = "IsADirectoryError" -> {"OSError"}
      [] class = "NotADirectoryError" -> {"OSError"}
      [] class = "PermissionError" -> {"OSError"}
      [] class = "ProcessLookupError" -> {"OSError"}
      [] class = "TimeoutError" -> {"OSError"}
      [] class = "NotImplementedError" -> {"RuntimeError"}
      [] class = "RecursionError" -> {"RuntimeError"}
      [] class = "CalledProcessError" -> {"SubprocessError"}
      [] class = "TimeoutExpired" -> {"SubprocessError"}
      [] class = "IndentationError" -> {"SyntaxError"}
      [] class = "UnicodeError" -> {"ValueError"}
      [] class = "BytesWarning" -> {"Warning"}
      [] class = "DeprecationWarning" -> {"Warning"}
      [] class = "EncodingWarning" -> {"Warning"}
      [] class = "FutureWarning" -> {"Warning"}
      [] class = "ImportWarning" -> {"Warning"}
      [] class = "PendingDeprecationWarning" -> {"Warning"}
      [] class = "ResourceWarning" -> {"Warning"}
      [] class = "RuntimeWarning" -> {"Warning"}
      [] class = "SyntaxWarning" -> {"Warning"}
      [] class = "UnicodeWarning" -> {"Warning"}
      [] class = "UserWarning" -> {"Warning"}
      [] class = "BrokenPipeError" -> {"ConnectionError"}
      [] class = "ConnectionAbortedError" -> {"ConnectionError"}
      [] class = "ConnectionRefusedError" -> {"ConnectionError"}
      [] class = "ConnectionResetError" -> {"ConnectionError"}
      [] class = "TabError" -> {"IndentationError"}
      [] class = "UnicodeDecodeError" -> {"UnicodeError"}
      [] class = "UnicodeEncodeError" -> {"UnicodeError"}
      [] class = "UnicodeTranslateError" -> {"UnicodeError"}

\* issubclass(class, of)
RECURSIVE issubclass(_, _)
issubclass(class, of) ==
    \/ class = of
    \/ \E b \in Bases(class) : issubclass(b, of)

Caught(res) == [caught |-> TRUE, result |-> res]
Uncaught == [caught |-> FALSE, result |-> NoResult]

\* a handler whose sentinel carries no diagnostic
except_clauses_silent(e) ==
    IF issubclass(e.type, "CalledProcessError")
    THEN Caught(Triple(e.returncode, e.stdout, e.stderr))
    ELSE IF issubclass(e.type, "Exception")
    THEN Caught(Triple(-1, <<>>, <<>>))
    ELSE Uncaught

\* lines 22-25: the two except clauses of run_cli_command; an exception
\* that is no Exception (KeyboardInterrupt) passes both
except_clauses(e) ==
    IF issubclass(e.type, "CalledProcessError")
    THEN Caught(Triple(e.returncode, e.stdout, e.stderr))
    ELSE IF issubclass(e.type, "Exception")
    THEN Caught(Triple(-1, <<>>, e.msg))
    ELSE Uncaught

\* the outcome of the try block: a value returned at line 21, or an exception
Returns(res) == [raises |-> FALSE, value |-> res,
                 exc |-> Exc("", <<>>, 0, <<>>, <<>>)]
Raises(e) == [raises |-> TRUE, value |-> NoResult, exc |-> e]

\* line 20, once the child has terminated: communicate() decodes stdout,
\* then stderr, with the encoding enc of the locale; check=True turns a
\* nonzero returncode into CalledProcessError, which carries the returncode
\* and both texts.
DecodeError(enc, pos) ==
    Exc("UnicodeDecodeError",
        MsgDecodeHead(enc) \o NatText(pos) \o MsgDecodeTail(enc),
        0, <<>>, <<>>)

subprocess_run(enc, returncode, out, err) ==
    LET o == bytes_decode(enc, out)
        e == bytes_decode(enc, err)
    IN IF ~o.ok THEN Raises(DecodeError(enc, o.pos))
       ELSE IF ~e.ok THEN Raises(DecodeError(enc, e.pos))
       ELSE LET stdout == translate_newlines(o.text)
                stderr == translate_newlines(e.text)
            IN IF returncode # 0
               THEN Raises(Exc("CalledProcessError", <<>>, returncode,
                               stdout, stderr))
               ELSE Returns(Triple(returncode, stdout, stderr))

\* line 20, when the child cannot be started: OSError(errno, strerror) is
\* of the class Python keeps for that errno, if it keeps one
OSErrorClass(errno) ==
    CASE errno \in {1, 13} -> "PermissionError"
      [] errno \in {2} -> "FileNotFoundError"
      [] errno \in {3} -> "ProcessLookupError"
      [] errno \in {4} -> "InterruptedError"
      [] errno \in {10} -> "ChildProcessError"
      [] errno \in {11, 114, 115} -> "BlockingIOError"
      [] errno \in {17} -> "FileExistsError"
      [] errno \in {20} -> "NotADirectoryError"
      [] errno \in {21} -> "IsADirectoryError"
      [] errno \in {32, 108} -> "BrokenPipeError"
      [] errno \in {103} -> "ConnectionAbortedError"
      [] errno \in {104} -> "ConnectionResetError"
      [] errno \in {110} -> "TimeoutError"
      [] errno \in {111} -> "ConnectionRefusedError"
      [] OTHER -> "OSError"

\* str(e) of OSError(errno, strerror), which has no file name ...
OSErrorHead(errno) ==
    MsgErrno \o NatText(errno) \o <<"]", " ">> \o strerror(errno)

\* ... and of OSError(errno, strerror, filename)
OSErrorText(errno, filename) ==
    OSErrorHead(errno) \o <<":", " ">> \o repr(filename)

\* the pipes cannot be made, or the process cannot be forked
fork_error(errno) ==
    Exc(OSErrorClass(errno), OSErrorHead(errno), 0, <<>>, <<>>)

\* the forked process cannot execute the program: Popen names args[0]
spawn_error(errno, filename) ==
    Exc(OSErrorClass(errno), OSErrorText(errno, filename), 0, <<>>, <<>>)

\* --------------------------------------------------- print and sys.stdout
\* the encodings sys.stdout may have
StdoutEncodings == {"utf-8", "gbk", "ascii"}

\* the error handlers Python gives sys.stdout: strict, or, under the C
\* locale, surrogateescape, which writes a lone surrogate as the byte it
\* stands for
StdoutErrors == {"strict", "surrogateescape"}

\* the paths the working directory may have: /a, the byte ff, which no
\* encoding of the locale decodes, and U+4E00 in UTF-8
CwdPaths == {<<47, 97>>, <<47, 255>>, <<47, 228, 184, 128>>}

\* the print statements whose literal is ASCII: the rules of lines 30, 32,
\* 34, 155, 167, 169, 177, 179, and line 33, which has no literal
AsciiLiterals == {"sep50", "nl_sep50", "sep60", "nl_sep60", "result"}

\* the print statements whose literal holds a mark: the banners of lines 53,
\* 57, 80, 84, 103, 107, 126, 130, and lines 160, 164 and 181; every other
\* literal holds CJK characters and no mark
MarkLiterals ==
    {"success", "failure", "not_project_root", "check_passed",
     "other_commands"}

LiteralEncodes(enc, k) ==
    \/ enc = "utf-8"
    \/ enc = "gbk" /\ k \notin MarkLiterals
    \/ enc = "ascii" /\ k \in AsciiLiterals

\* ------------------------------------------------------------------- state
VARIABLES
    entry,      \* the function of the module the caller invoked
    arg,        \* its argument: a command line, a task id, or nothing
    marker,     \* whether os.path.exists("package.json") holds
    cwd_exists, \* whether the working directory still exists
    cwd_path,   \* its path, as the bytes the file system keeps
    locale_encoding,  \* the encoding of the locale: os.fsencode encodes the
                \* arguments with it, text=True decodes the pipes with it
    stdout_encoding,  \* the encoding of sys.stdout
    stdout_errors,    \* its error handler
    values,     \* topic, requirements and keywords given to the create
                \* drivers in place of the values of the source, if any
    stack,      \* the call stack: frames [fn, pc], innermost last
    console,    \* the lines printed so far
    command,    \* run_cli_command's parameter
    cmd,        \* its local cmd, the argument list
    children,   \* every process forked so far, in order: forked, then
                \* running the program or failed to execute it, then exited
                \* or killed
    result,     \* the triple run_cli_command returned last
    retval,     \* the value a driver returned last
    raised,     \* the class of the exception that left the entry function
    calls,      \* history: the command line of every run_cli_command call
    runlog,     \* history: one record per run_cli_command call that returned
    drvlog,     \* history: one record per driver that got its command's
                \* result and has returned or raised
    trace       \* history: calls, returns, raises, forks, child starts and exits

vars == <<entry, arg, marker, cwd_exists, cwd_path, locale_encoding,
          stdout_encoding, stdout_errors, values, stack, console, command, cmd, children, result, retval,
          raised, calls, runlog, drvlog, trace>>

\* what no step of the program changes
env == <<entry, arg, marker, cwd_exists, cwd_path, locale_encoding,
         stdout_encoding, stdout_errors, values>>

CreateDrivers == {"example1", "example2"}
Drivers == {"example1", "example2", "example3", "example4"}
Entries == Drivers \cup {"example5", "main", "run_cli_command"}

\* the texts a caller may pass: up to MaxInputLen characters, among them
\* the NUL character, written "u0000"
InputChars == {"a", " ", "\"", "'", "\\", "u0000"}
InputTexts == UNION {[1..n -> InputChars] : n \in 0..MaxInputLen}

\* what a child may do: exit with a status, or die from a signal s, which
\* Popen reports as the returncode -s
ReturnCodes == (0..MaxExit) \cup {-s : s \in 1..MaxSig}
RawOutputs == UNION {[1..n -> Bytes] : n \in 0..MaxOutLen}

\* lines 43-45 and 70-72
HardcodedValues ==
    [d \in CreateDrivers |->
        IF d = "example1" THEN <<topic1, requirements1, keywords1>>
        ELSE <<topic2, requirements2, keywords2>>]

\* the create drivers run on the values of the source ...
SourceValues == [given |-> FALSE, triple |-> <<<<>>, <<>>, <<>>>>]
\* ... or on a triple put in their place
GivenValues(t) == [given |-> TRUE, triple |-> t]

\* topic, requirements and keywords of create driver d
DriverValues(d) == IF values.given THEN values.triple ELSE HardcodedValues[d]

Frame(fn, pc) == [fn |-> fn, pc |-> pc]
Top == stack[Len(stack)]
At(fn, pc) == stack # <<>> /\ Top = Frame(fn, pc)
Pop == SubSeq(stack, 1, Len(stack) - 1)
Goto(pc) == [stack EXCEPT ![Len(stack)].pc = pc]
Event(ev, fn) == [ev |-> ev, fn |-> fn]

\* one printed line: which print statement, of which function, and the
\* text or the number interpolated into it
Line(k, who, text, code) == [k |-> k, who |-> who, text |-> text, code |-> code]
Fixed(k, who) == Line(k, who, <<>>, 0)

\* print(...) of one line succeeds: sys.stdout encodes the literal and the
\* interpolated text (a returncode is written in ASCII digits)
Encodes(line) ==
    /\ LiteralEncodes(stdout_encoding, line.k)
    /\ \A i \in 1..Len(line.text) :
          \/ CharEncodes(stdout_encoding, line.text[i])
          \/ /\ stdout_errors = "surrogateescape"
             /\ line.text[i] \in Surrogates

\* a run of print statements: the first line that does not encode raises
\* UnicodeEncodeError, the lines before it have been printed
Unprintable(lines) == {i \in 1..Len(lines) : ~Encodes(lines[i])}
print_ok(lines) == Unprintable(lines) = {}
printed(lines) ==
    IF print_ok(lines) THEN lines
    ELSE SubSeq(lines, 1,
                (CHOOSE i \in Unprintable(lines) :
                    \A j \in Unprintable(lines) : i <= j) - 1)

\* an exception of class class is raised in fn outside every try block: it
\* unwinds all callers, none of which has a handler
Unwind(class, fn) ==
    /\ raised' = class
    /\ stack' = <<>>
    /\ trace' = Append(trace, Event("raise", fn))

\* The working directory (and package.json in it) matters to main() only,
\* and its path where main() prints it, at line 161: that is the one text
\* printed that may hold surrogates, so that the error handler of
\* sys.stdout matters there only.  The encoding of sys.stdout matters to
\* the functions that print, an argument to the functions that take one.
\* A working directory that is gone holds no package.json.
Init ==
    /\ entry \in Entries
    /\ arg \in (IF entry \in {"run_cli_command", "example3"}
                THEN InputTexts ELSE {<<>>})
    /\ marker \in (IF entry = "main" THEN BOOLEAN ELSE {TRUE})
    /\ cwd_exists \in (IF marker THEN {TRUE} ELSE BOOLEAN)
    /\ cwd_path \in (IF ~marker /\ cwd_exists THEN CwdPaths ELSE {<<47, 97>>})
    /\ locale_encoding \in LocaleEncodings
    /\ stdout_encoding \in (IF entry = "run_cli_command" THEN {"utf-8"}
                            ELSE StdoutEncodings)
    /\ stdout_errors \in (IF ~marker /\ cwd_exists THEN StdoutErrors
                          ELSE {"strict"})
    /\ values = SourceValues
    /\ stack = <<Frame(entry, IF entry = "run_cli_command" THEN "split"
                              ELSE "start")>>
    /\ console = <<>>
    /\ command = (IF entry = "run_cli_command" THEN arg ELSE <<>>)
    /\ cmd = <<>>
    /\ children = <<>>
    /\ result = NoResult
    /\ retval = PyNone
    /\ raised = "none"
    /\ calls = (IF entry = "run_cli_command" THEN <<arg>> ELSE <<>>)
    /\ runlog = <<>>
    /\ drvlog = <<>>
    /\ trace = <<Event("call", entry)>>

\* ------------------------------------------------------------------- main()
\* line 159: not os.path.exists("package.json")
marker_missing(exists) == ~exists

\* line 175: the list driver is called whatever sync_result is
main_lists(sync_result) == TRUE

\* lines 154-160, without package.json: the banner and the complaint
MainComplains ==
    <<Fixed("title", "main"), Fixed("sep60", "main"),
      Fixed("not_project_root", "main")>>

\* lines 154-169, with package.json: the banner and the heading
MainAnnounces ==
    <<Fixed("title", "main"), Fixed("sep60", "main"),
      Fixed("check_passed", "main"), Fixed("nl_sep60", "main"),
      Fixed("running_examples", "main"), Fixed("sep60", "main")>>

\* lines 177-185: the closing banner and the list of further commands
MainSummary ==
    <<Fixed("nl_sep60", "main"), Fixed("all_done", "main"),
      Fixed("sep60", "main"), Fixed("other_commands", "main"),
      Fixed("hint_result", "main"), Fixed("hint_retry", "main"),
      Fixed("hint_cancel", "main"), Fixed("hint_monitor", "main")>>

\* line 161: os.getcwd() decodes the path with the encoding of the locale
os_getcwd == fsdecode(locale_encoding, cwd_path)

\* ... and print writes its two arguments one after the other: the words
\* of the literal, then the path, then the end of the line
MainCwd == Line("cwd", "main", os_getcwd, 0)

\* the words are out and the path did not encode
MainCwdUnfinished == Fixed("cwd_unfinished", "main")

\* lines 154-172: the banner and the marker check; then either the
\* complaint, os.getcwd() (FileNotFoundError when the working directory is
\* gone), its line (UnicodeEncodeError when the path holds what sys.stdout
\* does not encode) and the return of line 162, or the call of example1
MainStart ==
    /\ At("main", "start")
    /\ IF marker_missing(marker)
       THEN IF ~print_ok(MainComplains)
            THEN /\ console' = console \o printed(MainComplains)
                 /\ Unwind("UnicodeEncodeError", "main")
            ELSE IF ~cwd_exists
            THEN /\ console' = console \o MainComplains
                 /\ Unwind("FileNotFoundError", "main")
            ELSE IF ~print_ok(<<MainCwd>>)
            THEN /\ console' = console \o MainComplains
                        \o (IF LiteralEncodes(stdout_encoding, "cwd")
                            THEN <<MainCwdUnfinished>> ELSE <<>>)
                 /\ Unwind("UnicodeEncodeError", "main")
            ELSE /\ console' = console \o MainComplains \o <<MainCwd>>
                 /\ stack' = Pop
                 /\ trace' = Append(trace, Event("return", "main"))
                 /\ raised' = raised
       ELSE /\ console' = console \o printed(MainAnnounces)
            /\ IF print_ok(MainAnnounces)
               THEN /\ stack' = Append(Goto("after_example1"),
                                       Frame("example1", "start"))
                    /\ trace' = Append(trace, Event("call", "example1"))
                    /\ raised' = raised
               ELSE Unwind("UnicodeEncodeError", "main")
    /\ retval' = PyNone
    /\ UNCHANGED <<env, command, cmd, children, result, calls, runlog, drvlog>>

\* lines 172-175: example1 has returned sync_result; example4 is called
MainAfterExample1 ==
    /\ At("main", "after_example1")
    /\ IF main_lists(retval)
       THEN /\ stack' = Append(Goto("after_example4"), Frame("example4", "start"))
            /\ trace' = Append(trace, Event("call", "example4"))
       ELSE /\ stack' = Goto("after_example4")
            /\ trace' = trace
    /\ UNCHANGED <<env, console, command, cmd, children, result, retval,
                   raised, calls, runlog, drvlog>>

\* lines 177-185: the summary, and the end of main()
MainFinish ==
    /\ At("main", "after_example4")
    /\ console' = console \o printed(MainSummary)
    /\ IF print_ok(MainSummary)
       THEN /\ stack' = Pop
            /\ trace' = Append(trace, Event("return", "main"))
            /\ raised' = raised
       ELSE Unwind("UnicodeEncodeError", "main")
    /\ retval' = PyNone
    /\ UNCHANGED <<env, command, cmd, children, result, calls, runlog, drvlog>>

\* ------------------------------------------------------ the example drivers
\* the command line driver d builds: lines 47, 74, 97 and 120
DriverCommand(d) ==
    IF d = "example1"
    THEN create_command(DriverValues(d)[1], DriverValues(d)[2],
                        DriverValues(d)[3], CreateSyncTail)
    ELSE IF d = "example2"
    THEN create_command(DriverValues(d)[1], DriverValues(d)[2],
                        DriverValues(d)[3], CreateAsyncTail)
    ELSE IF d = "example3" THEN status_command(arg)
    ELSE ListCommand

\* the wording of a driver's banners: example1 and example2 print the same
\* two banners (lines 53/57 and 80/84), example3 and example4 their own
Banner(d) ==
    IF d \in CreateDrivers THEN "create"
    ELSE IF d = "example3" THEN "status" ELSE "list"

\* lines 28-34: print_result
print_result(text) ==
    <<Fixed("nl_sep50", "print_result"), Fixed("result_heading", "print_result"),
      Fixed("sep50", "print_result"), Line("result", "print_result", text, 0),
      Fixed("sep50", "print_result")>>

\* lines 52, 79, 102 and 125: returncode == 0
is_success(returncode) == returncode = 0

\* lines 52-61 (and 79-88, 102-111, 125-134): the print statements the
\* driver runs once the runner has returned r
DriverPrints(d, r) ==
    IF is_success(r.returncode)
    THEN <<Fixed("success", Banner(d))>> \o print_result(r.stdout)
    ELSE <<Line("failure", Banner(d), <<>>, r.returncode)>>
         \o (IF r.stdout # <<>>
             THEN <<Line("stdout", Banner(d), r.stdout, 0)>> ELSE <<>>)
         \o (IF r.stderr # <<>>
             THEN <<Line("stderr", Banner(d), r.stderr, 0)>> ELSE <<>>)

\* ... and what it returns: stdout at lines 55, 82, 105 and 128, else None
DriverReturns(d, r) ==
    IF is_success(r.returncode) THEN Some(r.stdout) ELSE PyNone

\* lines 41-49 (68-76, 95-99, 118-122): the title and the command line
DriverAnnounces(d) ==
    <<Fixed("title", d), Line("command", d, DriverCommand(d), 0)>>

\* lines 41-50 (68-77, 95-100, 118-123): the title, the command line, its
\* echo, and the call of run_cli_command
DriverCall(d) ==
    /\ At(d, "start")
    /\ console' = console \o printed(DriverAnnounces(d))
    /\ IF print_ok(DriverAnnounces(d))
       THEN /\ command' = DriverCommand(d)
            /\ stack' = Append(Goto("called"), Frame("run_cli_command", "split"))
            /\ cmd' = <<>>
            /\ calls' = Append(calls, command')
            /\ trace' = Append(trace, Event("call", "run_cli_command"))
            /\ raised' = raised
       ELSE /\ Unwind("UnicodeEncodeError", d)
            /\ UNCHANGED <<command, cmd, calls>>
    /\ UNCHANGED <<env, children, result, retval, runlog, drvlog>>

\* lines 52-61 (79-88, 102-111, 125-134): the banner and the return
DriverReturn(d) ==
    /\ At(d, "called")
    /\ console' = console \o printed(DriverPrints(d, result))
    /\ IF print_ok(DriverPrints(d, result))
       THEN /\ retval' = DriverReturns(d, result)
            /\ drvlog' = Append(drvlog,
                   [fn |-> d, result |-> result, raised |-> FALSE,
                    printed |-> DriverPrints(d, result),
                    returned |-> DriverReturns(d, result)])
            /\ stack' = Pop
            /\ trace' = Append(trace, Event("return", d))
            /\ raised' = raised
       ELSE /\ retval' = retval
            /\ drvlog' = Append(drvlog,
                   [fn |-> d, result |-> result, raised |-> TRUE,
                    printed |-> printed(DriverPrints(d, result)),
                    returned |-> PyNone])
            /\ Unwind("UnicodeEncodeError", d)
    /\ UNCHANGED <<env, command, cmd, children, result, calls, runlog>>

\* lines 141-144: the title, then the list driver
Example5Start ==
    /\ At("example5", "start")
    /\ console' = console \o printed(<<Fixed("title", "example5")>>)
    /\ IF print_ok(<<Fixed("title", "example5")>>)
       THEN /\ stack' = Append(Goto("after_list"), Frame("example4", "start"))
            /\ trace' = Append(trace, Event("call", "example4"))
            /\ raised' = raised
       ELSE Unwind("UnicodeEncodeError", "example5")
    /\ UNCHANGED <<env, command, cmd, children, result, retval, calls,
                   runlog, drvlog>>

\* lines 146-150: what example5 prints of the list driver's return value
Example5Prints(tasks_output) ==
    IF Truthy(tasks_output)
    THEN <<Fixed("retry_by_hand", "example5"), Fixed("retry_usage", "example5")>>
    ELSE <<Fixed("no_tasks_found", "example5")>>

\* lines 146-150: the advice to retry by hand, or "no tasks found"
Example5Finish ==
    /\ At("example5", "after_list")
    /\ console' = console \o printed(Example5Prints(retval))
    /\ IF print_ok(Example5Prints(retval))
       THEN /\ stack' = Pop
            /\ trace' = Append(trace, Event("return", "example5"))
            /\ raised' = raised
       ELSE Unwind("UnicodeEncodeError", "example5")
    /\ retval' = PyNone
    /\ UNCHANGED <<env, command, cmd, children, result, calls, runlog, drvlog>>

\* --------------------------------------------------------- run_cli_command
NoChild == [state |-> "none", returncode |-> 0, out |-> <<>>, err |-> <<>>,
            argv |-> <<>>, errno |-> 0]
\* the process fork(2) has made, which has not yet executed the program
Forked(argv) == [state |-> "forked", returncode |-> 0, out |-> <<>>,
                 err |-> <<>>, argv |-> argv, errno |-> 0]
\* the forked process whose execve(2) failed with errno: it reports errno
\* on the error pipe and exits with status 255, having run no program (its
\* status is read by nobody but os.waitpid in Popen.__init__)
NoExec(argv, errno) == [state |-> "noexec", returncode |-> 255, out |-> <<>>,
                        err |-> <<>>, argv |-> argv, errno |-> errno]
Running(argv) == [state |-> "running", returncode |-> 0, out |-> <<>>,
                  err |-> <<>>, argv |-> argv, errno |-> 0]
Exited(argv, returncode, out, err) ==
    [state |-> "exited", returncode |-> returncode, out |-> out, err |-> err,
     argv |-> argv, errno |-> 0]
\* a child subprocess.run has sent SIGKILL and has not waited for; nothing
\* of what it wrote is kept
Killed(argv) == [state |-> "killed", returncode |-> -9, out |-> <<>>,
                 err |-> <<>>, argv |-> argv, errno |-> 0]

\* run_cli_command leaves its try block with outcome o, having started the
\* child c (NoChild if it started none): lines 21-25.  An exception no
\* except clause catches unwinds every caller, none of which has a handler.
Leave(o, c) ==
    LET h == IF o.raises THEN except_clauses(o.exc) ELSE Caught(o.value) IN
    IF h.caught
    THEN /\ result' = h.result
         /\ stack' = Pop
         /\ runlog' = Append(runlog,
                [command |-> command, child |-> c, result |-> h.result])
         /\ trace' = Append(trace, Event("return", "run_cli_command"))
         /\ raised' = raised
    ELSE /\ Unwind(o.exc.type, "run_cli_command")
         /\ UNCHANGED <<result, runlog>>

\* line 19: cmd = shlex.split(command)
RunSplit ==
    /\ At("run_cli_command", "split")
    /\ LET t == shlex_split(command) IN
       IF t.ok
       THEN /\ cmd' = t.argv
            /\ stack' = Goto("spawn")
            /\ UNCHANGED <<result, runlog, trace, raised>>
       ELSE /\ Leave(Raises(Exc("ValueError", t.err, 0, <<>>, <<>>)), NoChild)
            /\ cmd' = cmd
    /\ UNCHANGED <<env, console, command, children, retval, calls, drvlog>>

\* the errors of pipe(2), for the pipes of stdout and stderr and the pipe
\* the forked process reports on: EMFILE and ENFILE
PipeErrnos == {23, 24}

\* the errors of fork(2): EAGAIN and ENOMEM
ForkErrnos == {11, 12}

\* the errors of execve(2) on the entries of PATH joined with name.  An
\* empty name gives the entries themselves, with a slash: what goes wrong
\* with a program file once it is opened (EPERM, E2BIG, ENOEXEC, EISDIR,
\* EINVAL, ETXTBSY, ELIBBAD) cannot go wrong with them
ExecErrnos(name) ==
    {2, 5, 11, 12, 13, 20, 23, 24, 36, 40}
        \cup (IF name = <<>> THEN {} ELSE {1, 7, 8, 21, 22, 26, 80})

\* what becomes of the forked process: the program args[0] cannot be
\* executed, or it is, and the child runs it: what PATH holds is up to the
\* file system
Started == [started |-> TRUE, errno |-> 0]
FailedExec(errno) == [started |-> FALSE, errno |-> errno]

ExecOutcomes(argv) ==
    {FailedExec(e) : e \in ExecErrnos(argv[1])}
        \cup (IF argv[1] = <<>> THEN {} ELSE {Started})

\* line 20: subprocess.run passes each argument through os.fsencode, which
\* encodes it with the encoding of the locale (UnicodeEncodeError) and then
\* refuses a NUL character (ValueError); the first argument that fails
\* decides
ArgFails(enc, a) == ~TextEncodes(enc, a) \/ "u0000" \in Range(a)
ArgsFail(enc, argv) == \E i \in 1..Len(argv) : ArgFails(enc, argv[i])
fsencode_error(enc, argv) ==
    LET i == CHOOSE k \in 1..Len(argv) :
                 ArgFails(enc, argv[k]) /\ \A j \in 1..(k - 1) : ~ArgFails(enc, argv[j])
    IN IF ~TextEncodes(enc, argv[i])
       THEN Exc("UnicodeEncodeError", EncodeErrorText(argv[i]), 0, <<>>, <<>>)
       ELSE Exc("ValueError", MsgNullByte, 0, <<>>, <<>>)

\* line 20, Popen.__init__ up to the fork: subprocess.run makes the pipes,
\* takes args[0] for the program, encodes the arguments and forks, without
\* a shell (no shell=True), so that the child's argument list is cmd itself.
\* After the fork the constructor waits for the report of the forked
\* process.
RunSpawn ==
    /\ At("run_cli_command", "spawn")
    /\ \/ \E e \in PipeErrnos :
             /\ Leave(Raises(fork_error(e)), NoChild)
             /\ children' = children
       \/ IF cmd = <<>>
          THEN /\ Leave(Raises(Exc("IndexError", MsgListIndex, 0, <<>>, <<>>)),
                        NoChild)
               /\ children' = children
          ELSE IF ArgsFail(locale_encoding, cmd)
          THEN /\ Leave(Raises(fsencode_error(locale_encoding, cmd)), NoChild)
               /\ children' = children
          ELSE \/ \E e \in ForkErrnos :
                     /\ Leave(Raises(fork_error(e)), NoChild)
                     /\ children' = children
               \/ /\ children' = Append(children, Forked(cmd))
                  /\ stack' = Goto("exec")
                  /\ trace' = Append(trace, Event("fork", "child"))
                  /\ UNCHANGED <<result, runlog, raised>>
    /\ UNCHANGED <<env, console, command, cmd, retval, calls, drvlog>>

\* the environment: a forked process calls execve(2), which starts the
\* program or fails; the process does so whether or not the call that
\* forked it is still there
ChildExec ==
    \E i \in 1..Len(children) :
        /\ children[i].state = "forked"
        /\ \E how \in ExecOutcomes(children[i].argv) :
              /\ children' = [children EXCEPT
                                 ![i] = IF how.started
                                        THEN Running(children[i].argv)
                                        ELSE NoExec(children[i].argv, how.errno)]
              /\ trace' = Append(trace, Event(IF how.started THEN "spawn"
                                              ELSE "noexec", "child"))
        /\ UNCHANGED <<env, stack, console, command, cmd, result, retval,
                       raised, calls, runlog, drvlog>>

\* line 20, the rest of Popen.__init__: the error pipe is read to its end.
\* It is empty when the program was started, and subprocess.run goes on to
\* communicate with the child; else it holds the errno of execve(2), the
\* forked process is waited for (os.waitpid) and the OSError of that errno
\* is raised, with args[0] for its file name.
RunExecReport ==
    /\ At("run_cli_command", "exec")
    /\ LET c == children[Len(children)] IN
          /\ c.state # "forked"
          /\ IF c.state = "noexec"
             THEN Leave(Raises(spawn_error(c.errno, cmd[1])), NoChild)
             ELSE /\ stack' = Goto("wait")
                  /\ UNCHANGED <<result, runlog, trace, raised>>
    /\ UNCHANGED <<env, console, command, cmd, children, retval, calls, drvlog>>

\* the environment: a running child terminates, having written its output
ChildExit ==
    \E i \in 1..Len(children) :
        /\ children[i].state = "running"
        /\ \E rc \in ReturnCodes, out \in RawOutputs, err \in RawOutputs :
              children' = [children EXCEPT
                              ![i] = Exited(children[i].argv, rc, out, err)]
        /\ trace' = Append(trace, Event("exit", "child"))
        /\ UNCHANGED <<env, stack, console, command, cmd, result, retval,
                       raised, calls, runlog, drvlog>>

\* a runner that does not wait for its child
child_reaped_nowait(c) == TRUE

\* line 20, communicate: subprocess.run waits until its child has terminated
child_reaped(c) == c.state = "exited"

\* line 20, after communicate, and lines 21-25: the child of this call has been
\* waited for; its output is decoded, its returncode checked
RunCollect ==
    /\ At("run_cli_command", "wait")
    /\ LET c == children[Len(children)] IN
          /\ child_reaped(c)
          /\ Leave(subprocess_run(locale_encoding, c.returncode, c.out, c.err), c)
    /\ UNCHANGED <<env, console, command, cmd, children, retval, calls, drvlog>>

\* the print statements the function on top of the stack runs next, up to
\* its next call or its return
NextPrints ==
    IF Top.fn = "main"
    THEN IF Top.pc = "start"
         THEN IF marker_missing(marker)
              THEN MainComplains \o (IF cwd_exists THEN <<MainCwd>> ELSE <<>>)
              ELSE MainAnnounces
         ELSE IF Top.pc = "after_example4" THEN MainSummary ELSE <<>>
    ELSE IF Top.fn = "example5"
    THEN IF Top.pc = "start" THEN <<Fixed("title", "example5")>>
         ELSE Example5Prints(retval)
    ELSE IF Top.fn \in Drivers
    THEN IF Top.pc = "start" THEN DriverAnnounces(Top.fn)
         ELSE DriverPrints(Top.fn, result)
    ELSE <<>>

\* what SIGINT leaves of the children when it arrives inside
\* run_cli_command.  Only communicate() has a handler for it: there
\* subprocess.run sends SIGKILL to a child that is still running and does not
\* wait for it.  Everywhere else in line 20 (Popen.__init__ between the fork
\* and the end of the error pipe, the entry of the with statement) nothing
\* kills the child and nothing waits for it: it stays as it is.
InterruptLeaves ==
    IF At("run_cli_command", "wait") /\ children[Len(children)].state = "running"
    THEN {children,
          [children EXCEPT ![Len(children)] = Killed(children[Len(children)].argv)]}
    ELSE {children}

\* the environment: SIGINT reaches the interpreter, whose handler raises
\* KeyboardInterrupt in the function that is running, before or after any
\* of its print statements.  Inside run_cli_command that is inside the try
\* block of lines 17-21, none of whose except clauses catches it.
Interrupt ==
    /\ stack # <<>>
    /\ IF Top.fn = "run_cli_command"
       THEN /\ children' \in InterruptLeaves
            /\ Leave(Raises(Exc("KeyboardInterrupt", <<>>, 0, <<>>, <<>>)),
                     IF At("run_cli_command", "wait")
                     THEN children'[Len(children)] ELSE NoChild)
            /\ console' = console
       ELSE \E k \in 0..Len(printed(NextPrints)) :
               /\ children' = children
               /\ console' = console \o SubSeq(NextPrints, 1, k)
               /\ Unwind("KeyboardInterrupt", Top.fn)
               /\ UNCHANGED <<result, runlog>>
    /\ UNCHANGED <<env, command, cmd, retval, calls, drvlog>>

\* ---------------------------------------------------------- specifications
Next ==
    \/ MainStart
    \/ MainAfterExample1
    \/ MainFinish
    \/ \E d \in Drivers : DriverCall(d)
    \/ \E d \in Drivers : DriverReturn(d)
    \/ Example5Start
    \/ Example5Finish
    \/ RunSplit
    \/ RunSpawn
    \/ ChildExec
    \/ RunExecReport
    \/ ChildExit
    \/ RunCollect
    \/ Interrupt

Spec == Init /\ [][Next]_vars

\* ----------------------------------------- tokenization of the create lines
\* The values of the create drivers as inputs: every topic, requirements and
\* keywords over ValueChars of total length up to MaxValuesLen, and the values
\* the source gives them.
ValueChars == {"a", " ", ";", "|", "&"}

ValueTexts(n) == [1..n -> ValueChars]

ValueTriples ==
    UNION {ValueTexts(a) \X ValueTexts(b) \X ValueTexts(c) :
              <<a, b, c>> \in {t \in (0..MaxValuesLen) \X (0..MaxValuesLen)
                                      \X (0..MaxValuesLen) :
                                  t[1] + t[2] + t[3] <= MaxValuesLen}}

\* The create drivers do not look at the working directory.  They print
\* their title and their values, of which GBK encodes what UTF-8 does, so
\* that sys.stdout is one that prints them or one that does not.
InitTok ==
    /\ entry \in CreateDrivers
    /\ arg = <<>>
    /\ marker = TRUE
    /\ cwd_exists = TRUE
    /\ cwd_path = <<47, 97>>
    /\ locale_encoding \in LocaleEncodings
    /\ stdout_encoding \in {"utf-8", "ascii"}
    /\ stdout_errors = "strict"
    /\ \/ values = SourceValues
       \/ \E t \in ValueTriples : values = GivenValues(t)
    /\ stack = <<Frame(entry, "start")>>
    /\ console = <<>>
    /\ command = <<>>
    /\ cmd = <<>>
    /\ children = <<>>
    /\ result = NoResult
    /\ retval = PyNone
    /\ raised = "none"
    /\ calls = <<>>
    /\ runlog = <<>>
    /\ drvlog = <<>>
    /\ trace = <<Event("call", entry)>>

\* a create driver up to the start of its child, left to itself (SIGINT is
\* part of Spec)
NextTok ==
    \/ \E d \in CreateDrivers : DriverCall(d)
    \/ RunSplit
    \/ RunSpawn
    \/ ChildExec

SpecTok == InitTok /\ [][NextTok]_vars

\* ================================================================== claims
\* the words of the create command lines around the three values
CreateHead ==
    <<<<"n", "p", "m">>,
      <<"r", "u", "n">>,
      <<"c", "l", "i", ":", "c", "r", "e", "a", "t", "e">>,
      <<"-", "-">>,
      <<"-", "-", "t", "o", "p", "i", "c">>>>

SyncTail ==
    <<<<"-", "-", "m", "i", "n", "-", "w", "o", "r", "d", "s">>,
      <<"5", "0", "0">>,
      <<"-", "-", "m", "a", "x", "-", "w", "o", "r", "d", "s">>,
      <<"1", "0", "0", "0">>,
      <<"-", "-", "m", "o", "d", "e">>,
      <<"s", "y", "n", "c">>>>

AsyncTail ==
    <<<<"-", "-", "m", "i", "n", "-", "w", "o", "r", "d", "s">>,
      <<"8", "0", "0">>,
      <<"-", "-", "m", "a", "x", "-", "w", "o", "r", "d", "s">>,
      <<"1", "2", "0", "0">>,
      <<"-", "-", "m", "o", "d", "e">>,
      <<"a", "s", "y", "n", "c">>>>

FlagRequirements ==
    <<<<"-", "-", "r", "e", "q", "u", "i", "r", "e", "m", "e", "n", "t", "s">>>>

FlagKeywords ==
    <<<<"-", "-", "k", "e", "y", "w", "o", "r", "d", "s">>>>

\* helpers of the claims
Logged == 1..Len(runlog)
Driven == 1..Len(drvlog)
Printed(k, who) == \E i \in 1..Len(console) : console[i].k = k /\ console[i].who = who
Finished == stack = <<>>
\* the run was ended from outside, by SIGINT
Interrupted == raised = "KeyboardInterrupt"
\* the run is over and nobody ended it
Over == Finished /\ ~Interrupted
\* the children that have not terminated: forked, or running their program
LiveChildren == {i \in 1..Len(children) :
                    children[i].state \in {"forked", "running"}}
\* a call of run_cli_command is in progress
InCall == stack # <<>> /\ Top.fn = "run_cli_command"
IsPrefix(s, t) == Len(s) <= Len(t) /\ s = SubSeq(t, 1, Len(s))
IsDriverEvent(e) == e.fn \in Drivers
DriverEvents == SelectSeq(trace, IsDriverEvent)
IsRunnerCall(e) == e = Event("call", "run_cli_command")
RunnerCalls == Len(SelectSeq(trace, IsRunnerCall))
WithChild == {i \in Logged : runlog[i].child.state # "none"}

\* the text subprocess.run captured from the raw output raw, when it decodes
Decodes(raw) == bytes_decode(locale_encoding, raw).ok
Captured(raw) == translate_newlines(bytes_decode(locale_encoding, raw).text)

\* C1: a call of run_cli_command that started no child (the command line did
\* not tokenize, or the program could not be executed) returned -1, an empty
\* stdout and a non-empty diagnostic; and no exception raised by lines 19-20
\* left the call (only KeyboardInterrupt, raised from outside, passes it).
C1_StartFailureGivesSentinel ==
    /\ \A i \in Logged :
          runlog[i].child.state = "none" =>
              /\ runlog[i].result.returncode = -1
              /\ runlog[i].result.stdout = <<>>
              /\ runlog[i].result.stderr # <<>>
    /\ \A i \in 1..Len(trace) :
          trace[i] = Event("raise", "run_cli_command") => Interrupted

\* C1 witness: run_cli_command was given a command line with an open quote
\* and has returned the sentinel with the lexer's message
C1_Witness ==
    /\ entry = "run_cli_command"
    /\ Finished
    /\ raised = "none"
    /\ Len(runlog) = 1
    /\ runlog[1].child.state = "none"
    /\ runlog[1].result = Triple(-1, <<>>, MsgNoClosingQuotation)

\* C2 (as claimed): whenever the child of a call started and terminated, the
\* call returned the child's returncode and the texts captured from its
\* stdout and stderr, for a zero and for a nonzero returncode alike.
C2_EveryExitGivesItsTriple ==
    \A i \in Logged :
        LET c == runlog[i].child
            r == runlog[i].result
        IN c.state = "exited" =>
              /\ r.returncode = c.returncode
              /\ Decodes(c.out) => r.stdout = Captured(c.out)
              /\ Decodes(c.err) => r.stderr = Captured(c.err)

\* C3 (as claimed): when main() runs without package.json it never calls
\* run_cli_command and starts no child, and, unless it is interrupted, it
\* returns having printed the banner and the complaint; whenever main() has
\* made a call, the check had passed.
C3_NoMarkerNoCommand ==
    entry = "main" =>
        /\ ~marker => /\ calls = <<>>
                      /\ children = <<>>
                      /\ RunnerCalls = 0
                      /\ DriverEvents = <<>>
        /\ ~marker /\ Over =>
              /\ raised = "none"
              /\ console = MainComplains \o <<MainCwd>>
        /\ calls # <<>> => marker /\ Printed("check_passed", "main")
        /\ Printed("not_project_root", "main") => ~marker

\* the driver calls and returns of a whole run of main()
C4_Expected ==
    <<Event("call", "example1"), Event("return", "example1"),
      Event("call", "example4"), Event("return", "example4")>>

\* C4 (as claimed): with package.json present, main() calls example1, then,
\* once example1 has returned and whatever it returned, example4, and no
\* other driver; unless it is interrupted, it has run both when it is over,
\* and the closing summary is printed after them, as the last lines.
C4_CreateThenList ==
    entry = "main" /\ marker =>
        /\ IsPrefix(DriverEvents, C4_Expected)
        /\ Printed("all_done", "main") => Finished
        /\ Over =>
              /\ DriverEvents = C4_Expected
              /\ Len(console) >= 8
              /\ SubSeq(console, Len(console) - 7, Len(console)) = MainSummary
              /\ Len(drvlog) = 2
              /\ drvlog[1].fn = "example1"
              /\ drvlog[2].fn = "example4"

\* some line of p is of kind k (and carries text)
C5_HasLine(p, k, text) == \E j \in 1..Len(p) : p[j].k = k /\ p[j].text = text
C5_HasBanner(p, k) == \E j \in 1..Len(p) : p[j].k = k

\* C5 (as claimed): a driver that got the runner's result printed its
\* success banner, then the result block with the command's stdout, and
\* returned stdout, exactly when the runner's code was 0; otherwise it
\* printed its failure banner with that code first, the stderr text whenever
\* there is any, no success banner, and returned None.  No invocation
\* printed both banners.
C5_BannerFollowsCode ==
    \A i \in Driven :
        LET d == drvlog[i].fn
            r == drvlog[i].result
            p == drvlog[i].printed
            who == IF d \in {"example1", "example2"} THEN "create"
                   ELSE IF d = "example3" THEN "status" ELSE "list"
        IN /\ ~drvlog[i].raised
           /\ ~drvlog[i].returned.isNone <=> r.returncode = 0
           /\ C5_HasBanner(p, "success") <=> r.returncode = 0
           /\ C5_HasBanner(p, "failure") <=> r.returncode # 0
           /\ r.returncode = 0 =>
                 /\ p[1] = Line("success", who, <<>>, 0)
                 /\ Len(p) = 6
                 /\ p[5].k = "result" /\ p[5].text = r.stdout
                 /\ ~C5_HasBanner(p, "stderr")
                 /\ drvlog[i].returned = [isNone |-> FALSE, val |-> r.stdout]
           /\ r.returncode # 0 =>
                 /\ p[1] = Line("failure", who, <<>>, r.returncode)
                 /\ r.stderr # <<>> => C5_HasLine(p, "stderr", r.stderr)
                 /\ r.stdout # <<>> => C5_HasLine(p, "stdout", r.stdout)
                 /\ ~C5_HasBanner(p, "result")
                 /\ drvlog[i].returned = [isNone |-> TRUE, val |-> <<>>]

\* the argument list expected of create driver d
C6_ExpectedArgv(d) ==
    CreateHead \o <<DriverValues(d)[1]>> \o FlagRequirements
        \o <<DriverValues(d)[2]>> \o FlagKeywords \o <<DriverValues(d)[3]>>
        \o (IF d = "example1" THEN SyncTail ELSE AsyncTail)

\* C6: the argument list run_cli_command builds from a create driver's
\* command line, and hands to the child as its argument list, is the fixed
\* words with the topic, the requirements and the keywords each as one
\* argument, character for character; the tokenization never fails.
C6_OneArgumentPerValue ==
    entry \in CreateDrivers =>
        /\ stack # <<>> /\ Top.fn = "run_cli_command" /\ Top.pc # "split" =>
              cmd = C6_ExpectedArgv(entry)
        /\ \A i \in 1..Len(children) : children[i].argv = C6_ExpectedArgv(entry)
        /\ \A i \in Logged :
              /\ runlog[i].result.stderr # MsgNoClosingQuotation
              /\ runlog[i].result.stderr # MsgNoEscapedCharacter
              /\ runlog[i].result.stderr # MsgListIndex
              /\ runlog[i].result.stderr # MsgNullByte
        /\ \A i \in 1..Len(trace) : trace[i] # Event("raise", "run_cli_command")

\* C6 witness: a child was started whose topic is "&&", whose requirements
\* are a space and whose keywords are empty
C6_Witness ==
    /\ entry \in CreateDrivers
    /\ Len(children) = 1
    /\ children[1].state = "running"
    /\ Len(children[1].argv) = 16
    /\ children[1].argv[6] = <<"&", "&">>
    /\ children[1].argv[8] = <<" ">>
    /\ children[1].argv[10] = <<>>

\* C7 (as claimed): the code of every result is the returncode of the one
\* child of the call, or -1; and it is -1 only if the call started no child.
C7_SentinelMeansNotStarted ==
    \A i \in Logged :
        LET c == runlog[i].child
            r == runlog[i].result
        IN /\ \/ c.state = "exited" /\ r.returncode = c.returncode
              \/ r.returncode = -1
           /\ r.returncode = -1 => c.state = "none"

\* C8: children never live side by side, and only the last one may be
\* alive, while the call that forked it is in progress or after SIGINT ended
\* the run; a call that has returned forked at most one process, which had
\* terminated, and the result of a call that ran a program is logged only
\* with that program exited; every call but the one in progress or
\* interrupted has returned; a child is killed only by an interrupted call,
\* and nothing is started after an interrupt; no command line is run twice:
\* the child of the call in progress runs the tokens of that call, there
\* are no more children than calls that got as far as the fork, the calls
\* differ, there is one call per driver, and main() makes at most two calls and forks at most two
\* children.
C8_OneChildPerCall ==
    /\ Cardinality(LiveChildren) <= 1
    /\ LiveChildren # {} =>
          /\ LiveChildren = {Len(children)}
          /\ \/ At("run_cli_command", "exec")
             \/ At("run_cli_command", "wait")
             \/ Interrupted
    /\ \A i \in 1..Len(children) :
          /\ i < Len(children) => children[i].state \in {"exited", "noexec"}
          /\ children[i].state = "killed" => Interrupted
    /\ \A i \in Logged : runlog[i].child.state \in {"none", "exited"}
    /\ \A i \in WithChild :
          \E k \in 1..Len(children) : children[k] = runlog[i].child
    /\ Cardinality(WithChild)
          <= Cardinality({k \in 1..Len(children) : children[k].state = "exited"})
    /\ At("run_cli_command", "split") \/ At("run_cli_command", "spawn") =>
          Len(children) < Len(calls)
    /\ At("run_cli_command", "exec") \/ At("run_cli_command", "wait") =>
          /\ Len(children) >= 1
          /\ children[Len(children)].argv = cmd
    /\ Len(children) <= Len(calls)
    /\ Len(calls) = RunnerCalls
    /\ InCall => Len(runlog) = Len(calls) - 1
    /\ ~InCall =>
          Len(runlog) \in (IF Interrupted THEN {Len(calls) - 1, Len(calls)}
                           ELSE {Len(calls)})
    /\ \A i, j \in 1..Len(calls) : i # j => calls[i] # calls[j]
    /\ entry = "main" => Len(calls) <= 2 /\ Len(children) <= 2
    /\ entry # "main" => Len(calls) <= 1 /\ Len(children) <= 1
    /\ \A i \in Driven : Len(calls) >= i

\* C8 witness: main() has returned after two children, both terminated
C8_Witness ==
    /\ entry = "main" /\ Finished /\ raised = "none"
    /\ Len(children) = 2
    /\ children[1].state = "exited" /\ children[2].state = "exited"
    /\ children[1].returncode # 0

\* C9 (as claimed): no exception ever leaves run_cli_command, a driver or
\* main(), unless the run is interrupted from outside: the entry function,
\* once over, has returned, whatever its commands did and with or without
\* package.json.
C9_NothingPropagates ==
    /\ raised \in {"none", "KeyboardInterrupt"}
    /\ \A i \in 1..Len(trace) : trace[i].ev = "raise" => Interrupted
    /\ Over => trace[Len(trace)] = Event("return", entry)
    /\ Len(drvlog) <= Len(runlog)
    /\ Over /\ entry = "main" /\ marker => Len(drvlog) = 2 /\ Len(runlog) = 2

\* C10 (as claimed): example5 makes one call, of the list command line, and
\* none of a retry; unless it is interrupted, it advises the retry by hand
\* exactly when the list command exited 0 having written something, and
\* else reports no task.
C10_AdviceIffListed ==
    entry = "example5" =>
        /\ IsPrefix(calls, <<ListCommand>>)
        /\ Len(children) <= 1
        /\ Over =>
              LET listed == /\ children # <<>>
                            /\ children[1].state = "exited"
                            /\ children[1].returncode = 0
                            /\ children[1].out # <<>>
              IN /\ calls = <<ListCommand>>
                 /\ Printed("retry_by_hand", "example5") <=> listed
                 /\ Printed("no_tasks_found", "example5") <=> ~listed
====
